---- MODULE Spec2Model ----
(***************************************************************************)
(* Model of lithdat: main() decodes a little-endian "world" file: a header *)
(* of fifteen u32 fields, then six sections reached by absolute seeks.     *)
(* Bytes are numbers 0..255, the file is a sequence of bytes, the cursor   *)
(* `pos` is the zero-based file offset of the open *os.File.               *)
(* float32 values are kept as the u32 bit pattern of their four bytes.     *)
(***************************************************************************)
EXTENDS Integers, Sequences

VARIABLES
    file,         \* the bytes of the input file (never written)
    seekable,     \* whether the opened file supports lseek (regular file) or not (pipe)
    doc,          \* the world objects the input file was encoded from
    pos,          \* cursor of worldFile
    pc,           \* position of main()
    worldHeader,  \* var worldHeader HEADER
    world,        \* var world WORLD
    worldObject,  \* var worldObject WORLDOBJECT of the running iteration
    property,     \* var property PROPERTY of the running iteration
    i,            \* iterations of `for range world.WorldObjectsLen` completed
    j,            \* iterations of `for range worldObject.PropertiesLen` completed
    seekLog,      \* the offsets passed to worldFile.Seek, in call order
    readErr       \* positions of main() at which a binary.Read returned an error (discarded by `_ =`)

vars == <<file, seekable, doc, pos, pc, worldHeader, world, worldObject, property,
          i, j, seekLog, readErr>>

(***************************************************************************)
(* Bounds of the input files.                                              *)
(***************************************************************************)
MaxObjects == 2   \* world objects in an input file
MaxProps == 2     \* properties per world object
MaxStrLen == 1    \* bytes of a string
MaxTag == 7       \* largest type tag of the generated properties (4 is not decoded)
MaxCut == 9       \* bytes cut off the end of an input file

Min(a, b) == IF a < b THEN a ELSE b

(***************************************************************************)
(* Zero values of the Go structs.                                          *)
(***************************************************************************)
ZeroVEC3 == [X |-> 0, Y |-> 0, Z |-> 0]

ZeroCOLOR == [R |-> 0, G |-> 0, B |-> 0]

ZeroQUATERNION == [X |-> 0, Y |-> 0, Z |-> 0, W |-> 0]

ZeroPROPERTY ==
    [Name |-> <<>>, DataTypeFlag |-> 0, PropertyFlags |-> 0, DataSize |-> 0,
     DataString |-> <<>>, DataVEC3 |-> ZeroVEC3, DataCOLOR |-> ZeroCOLOR,
     DataFloat |-> 0, DataBool |-> FALSE, DataUint32 |-> 0,
     DataQuaternion |-> ZeroQUATERNION, Data |-> <<>>]

ZeroWORLDOBJECT ==
    [ObjectSize |-> 0, ObjectType |-> <<>>, PropertiesLen |-> 0, Properties |-> <<>>]

ZeroHEADER ==
    [Version |-> 0, ObjectDataPos |-> 0, BlindObjectDataPos |-> 0, LightgridPos |-> 0,
     CollisionDataPos |-> 0, ParticleBlockerDataPos |-> 0, RenderDataPos |-> 0,
     PackerType |-> 0, PackerVersion |-> 0, Future |-> <<0, 0, 0, 0, 0, 0>>]

ZeroWORLD ==
    [WorldObjectsLen |-> 0, WorldObjects |-> <<>>, BlindObjectDataSize |-> 0,
     PhysicsDataLen |-> 0, ParticleBlockerDataLen |-> 0]

(***************************************************************************)
(* The input files: the on-disk layout main() reads, written out from a    *)
(* list of world objects.                                                  *)
(***************************************************************************)
U16Bytes(n) == <<n % 256, n \div 256>>

U32Bytes(n) == <<n % 256, (n \div 256) % 256, (n \div 65536) % 256, n \div 16777216>>

LStringBytes(s) == U16Bytes(Len(s)) \o s

VEC3Bytes(v) == U32Bytes(v.X) \o U32Bytes(v.Y) \o U32Bytes(v.Z)

COLORBytes(c) == U32Bytes(c.R) \o U32Bytes(c.G) \o U32Bytes(c.B)

QUATERNIONBytes(q) == U32Bytes(q.X) \o U32Bytes(q.Y) \o U32Bytes(q.Z) \o U32Bytes(q.W)

PayloadBytes(p) ==
    CASE p.DataTypeFlag = 0 -> LStringBytes(p.DataString)
      [] p.DataTypeFlag = 1 -> VEC3Bytes(p.DataVEC3)
      [] p.DataTypeFlag = 2 -> COLORBytes(p.DataCOLOR)
      [] p.DataTypeFlag = 3 -> U32Bytes(p.DataFloat)
      [] p.DataTypeFlag = 5 -> <<IF p.DataBool THEN 1 ELSE 0>>
      [] p.DataTypeFlag = 6 -> U32Bytes(p.DataUint32)
      [] p.DataTypeFlag = 7 -> QUATERNIONBytes(p.DataQuaternion)
      [] OTHER -> <<>>

PropertyBytes(p) ==
    LStringBytes(p.Name) \o <<p.DataTypeFlag>> \o U32Bytes(p.PropertyFlags)
        \o U16Bytes(p.DataSize) \o PayloadBytes(p)

RECURSIVE PropertiesBytes(_)
PropertiesBytes(ps) ==
    IF ps = <<>> THEN <<>> ELSE PropertyBytes(Head(ps)) \o PropertiesBytes(Tail(ps))

WorldObjectBytes(o) ==
    U16Bytes(o.ObjectSize) \o LStringBytes(o.ObjectType) \o U32Bytes(o.PropertiesLen)
        \o PropertiesBytes(o.Properties)

RECURSIVE WorldObjectsBytes(_)
WorldObjectsBytes(os) ==
    IF os = <<>> THEN <<>> ELSE WorldObjectBytes(Head(os)) \o WorldObjectsBytes(Tail(os))

ObjectSectionBytes(os) == U32Bytes(Len(os)) \o WorldObjectsBytes(os)

\* A string of n bytes, starting at byte value c.
Text(c, n) == [k \in 1..n |-> c + k - 1]

\* The property of type tag t at index jj of the object at index ii.
GenProperty(t, ii, jj) ==
    [ZeroPROPERTY EXCEPT
        !.Name = Text(65 + jj, jj % (MaxStrLen + 1)),
        !.DataTypeFlag = t,
        !.PropertyFlags = 1 + jj,
        !.DataSize = 4 * ii,
        !.DataString = IF t = 0 THEN Text(97, (jj + 1) % (MaxStrLen + 1)) ELSE <<>>,
        !.DataVEC3 = IF t = 1 THEN [X |-> 1, Y |-> 2, Z |-> 3] ELSE ZeroVEC3,
        !.DataCOLOR = IF t = 2 THEN [R |-> 4, G |-> 5, B |-> 6] ELSE ZeroCOLOR,
        !.DataFloat = IF t = 3 THEN 7 ELSE 0,
        !.DataBool = (t = 5),
        !.DataUint32 = IF t = 6 THEN 264 ELSE 0,
        !.DataQuaternion = IF t = 7 THEN [X |-> 9, Y |-> 10, Z |-> 11, W |-> 12]
                           ELSE ZeroQUATERNION]

\* The object at index ii: np properties whose tags count up from t0.
GenObject(t0, np, ii) ==
    [ObjectSize |-> 3 + ii,
     ObjectType |-> Text(79, ii % (MaxStrLen + 1)),
     PropertiesLen |-> np,
     Properties |-> [jj \in 1..np |-> GenProperty((t0 + jj - 1) % (MaxTag + 1), ii, jj - 1)]]

GenDoc(no, np, t0) == [ii \in 1..no |-> GenObject(t0, np, ii - 1)]

Docs ==
    {GenDoc(0, 0, 0)}
        \cup {GenDoc(no, 0, 0) : no \in 1..MaxObjects}
        \cup {GenDoc(no, np, t0) : no \in 1..MaxObjects, np \in 1..MaxProps, t0 \in 0..MaxTag}

HeaderLen == 60

\* The sections other than the world objects: a u32 prefix for the blind objects,
\* the collision data and the particle blockers; main() reads nothing of the light
\* grid and the render data.
BlindBytes == U32Bytes(66049)

LightgridBytes == <<9, 9>>

PhysicsBytes == U32Bytes(2)

ParticleBytes == U32Bytes(3)

RenderBytes == <<8>>

\* order "fwd": the sections in the order of their header fields; "rev": reversed.
\* beyond = k > 0 puts the k-th header offset one past the end of the file.
Layouts ==
    {[order |-> o, beyond |-> 0, cut |-> c] : o \in {"fwd", "rev"}, c \in 0..MaxCut}
        \cup {[order |-> "fwd", beyond |-> k, cut |-> 0] : k \in 1..6}

BuildFile(d, lay) ==
    LET obj == ObjectSectionBytes(d)
        fwd == lay.order = "fwd"
        body == IF fwd
                THEN obj \o BlindBytes \o LightgridBytes \o PhysicsBytes \o ParticleBytes
                         \o RenderBytes
                ELSE RenderBytes \o ParticleBytes \o PhysicsBytes \o LightgridBytes
                         \o BlindBytes \o obj
        total == HeaderLen + Len(body)
        objAt == IF fwd THEN HeaderLen ELSE HeaderLen + 15
        blindAt == IF fwd THEN HeaderLen + Len(obj) ELSE HeaderLen + 11
        gridAt == IF fwd THEN HeaderLen + Len(obj) + 4 ELSE HeaderLen + 9
        physAt == IF fwd THEN HeaderLen + Len(obj) + 6 ELSE HeaderLen + 5
        partAt == IF fwd THEN HeaderLen + Len(obj) + 10 ELSE HeaderLen + 1
        rendAt == IF fwd THEN HeaderLen + Len(obj) + 14 ELSE HeaderLen
        Off(k, at) == IF lay.beyond = k THEN total + 1 ELSE at
        header == U32Bytes(85) \o U32Bytes(Off(1, objAt)) \o U32Bytes(Off(2, blindAt))
                    \o U32Bytes(Off(3, gridAt)) \o U32Bytes(Off(4, physAt))
                    \o U32Bytes(Off(5, partAt)) \o U32Bytes(Off(6, rendAt))
                    \o U32Bytes(1) \o U32Bytes(2)
                    \o U32Bytes(11) \o U32Bytes(12) \o U32Bytes(13)
                    \o U32Bytes(14) \o U32Bytes(15) \o U32Bytes(16)
        full == header \o body
    IN  SubSeq(full, 1, Len(full) - lay.cut)

(***************************************************************************)
(* encoding/binary over *os.File.                                          *)
(***************************************************************************)
FileLen == Len(file)

\* io.ReadFull of n bytes at offset p succeeds
Avail(p, n) == n = 0 \/ p + n <= FileLen

\* the cursor after io.ReadFull of n bytes at offset p: a short read stops at end of file
Advance(p, n) == IF n = 0 \/ p >= FileLen THEN p ELSE Min(p + n, FileLen)

\* the byte at offset p of the read buffer: buffers are zeroed by make
ByteAt(p) == IF p < FileLen THEN file[p + 1] ELSE 0

RECURSIVE LittleEndian(_, _)
LittleEndian(p, n) == IF n = 0 THEN 0 ELSE ByteAt(p) + 256 * LittleEndian(p + 1, n - 1)

\* binary.Read(worldFile, binary.LittleEndian, &x) for an n-byte unsigned x holding old
ReadUint(p, n, old) == IF Avail(p, n) THEN LittleEndian(p, n) ELSE old

\* the error binary.Read returns for n bytes at offset p: TRUE when it is not nil
ReadFails(p, n) == ~Avail(p, n)

(***************************************************************************)
(* readLithSTRING: a u16 size, then size bytes into a zeroed buffer.       *)
(* Both errors are discarded: a failed size read leaves size 0, a short    *)
(* read of the bytes leaves the buffer zero-filled.                        *)
(***************************************************************************)
\* a buffer with room for a terminator that the file does not hold
BufLenTerminated(size) == size + 1

\* buf := make([]byte, size)
BufLen(size) == size

readLithSTRING(p) ==
    LET size == ReadUint(p, 2, 0)
        p1 == Advance(p, 2)
        n == BufLen(size)
        buf == IF Avail(p1, n) THEN [k \in 1..n |-> ByteAt(p1 + k - 1)]
               ELSE [k \in 1..n |-> 0]
    IN  [destination |-> buf,
         pos |-> Advance(p1, n),
         failed |-> ReadFails(p, 2) \/ ReadFails(p1, n)]

\* the discarded error of the read(s) made at the current position of main()
Discard(failed) == IF failed THEN readErr \cup {pc} ELSE readErr

(***************************************************************************)
(* main()                                                                  *)
(***************************************************************************)
Init ==
    /\ doc \in Docs
    /\ \E lay \in Layouts : file = BuildFile(doc, lay)
    /\ seekable \in BOOLEAN
    /\ pos = 0
    /\ pc = "header"
    /\ worldHeader = ZeroHEADER
    /\ world = ZeroWORLD
    /\ worldObject = ZeroWORLDOBJECT
    /\ property = ZeroPROPERTY
    /\ i = 0
    /\ j = 0
    /\ seekLog = <<>>
    /\ readErr = {}

\* PackerType and PackerVersion read in each other's place
HeaderFieldPackerSwapped(k) ==
    LET at == CASE k = 8 -> 9 [] k = 9 -> 8 [] OTHER -> k
    IN  ReadUint(Min(4 * (at - 1), FileLen), 4, 0)

\* the k-th (1..15) u32 field of the header, read at the cursor after k-1 reads from 0
HeaderField(k) == ReadUint(Min(4 * (k - 1), FileLen), 4, 0)

\* Parse world header: fifteen binary.Read calls from offset 0
ReadHeader ==
    /\ pc = "header"
    /\ worldHeader' =
          [Version |-> HeaderField(1),
           ObjectDataPos |-> HeaderField(2),
           BlindObjectDataPos |-> HeaderField(3),
           LightgridPos |-> HeaderField(4),
           CollisionDataPos |-> HeaderField(5),
           ParticleBlockerDataPos |-> HeaderField(6),
           RenderDataPos |-> HeaderField(7),
           PackerType |-> HeaderField(8),
           PackerVersion |-> HeaderField(9),
           Future |-> [k \in 1..6 |-> HeaderField(9 + k)]]
    /\ pos' = Min(HeaderLen, FileLen)
    /\ readErr' = Discard(ReadFails(0, HeaderLen))
    /\ pc' = "seekObjects"
    /\ UNCHANGED <<file, seekable, doc, world, worldObject, property, i, j, seekLog>>

\* the seeks to the light grid and to the collision data in each other's place
SectionOffsetSwapped(k) ==
    CASE k = 1 -> worldHeader.ObjectDataPos
      [] k = 2 -> worldHeader.BlindObjectDataPos
      [] k = 3 -> worldHeader.CollisionDataPos
      [] k = 4 -> worldHeader.LightgridPos
      [] k = 5 -> worldHeader.ParticleBlockerDataPos
      [] k = 6 -> worldHeader.RenderDataPos

\* The header offset of the k-th section main() seeks to.
SectionOffset(k) ==
    CASE k = 1 -> worldHeader.ObjectDataPos
      [] k = 2 -> worldHeader.BlindObjectDataPos
      [] k = 3 -> worldHeader.LightgridPos
      [] k = 4 -> worldHeader.CollisionDataPos
      [] k = 5 -> worldHeader.ParticleBlockerDataPos
      [] k = 6 -> worldHeader.RenderDataPos

\* worldFile.Seek(int64(offset), io.SeekStart): lseek sets any non-negative offset
\* of a seekable file, also one past its end; it fails on a pipe
SeekFails(offset) == ~seekable

\* _, err = worldFile.Seek(...); if err != nil { os.Exit(1) }
Seek(at, k, next) ==
    /\ pc = at
    /\ seekLog' = Append(seekLog, SectionOffset(k))
    /\ IF SeekFails(SectionOffset(k))
       THEN pc' = "exit" /\ pos' = pos
       ELSE pc' = next /\ pos' = SectionOffset(k)
    /\ UNCHANGED <<file, seekable, doc, worldHeader, world, worldObject, property, i, j,
                   readErr>>

SeekObjects == Seek("seekObjects", 1, "objectsLen")

\* an off-by-one loop that runs its body once more
LoopContinuesInclusive(done, n) == done <= n

\* `for range n`: the body runs again after done iterations
LoopContinues(done, n) == done < n

ReadWorldObjectsLen ==
    /\ pc = "objectsLen"
    /\ world' = [world EXCEPT !.WorldObjectsLen = ReadUint(pos, 4, @)]
    /\ pos' = Advance(pos, 4)
    /\ readErr' = Discard(ReadFails(pos, 4))
    /\ i' = 0
    /\ pc' = IF LoopContinues(0, world'.WorldObjectsLen) THEN "objectSize" ELSE "seekBlind"
    /\ UNCHANGED <<file, seekable, doc, worldHeader, worldObject, property, j, seekLog>>

ReadObjectSize ==
    /\ pc = "objectSize"
    /\ worldObject' = [ZeroWORLDOBJECT EXCEPT !.ObjectSize = ReadUint(pos, 2, 0)]
    /\ pos' = Advance(pos, 2)
    /\ readErr' = Discard(ReadFails(pos, 2))
    /\ pc' = "objectType"
    /\ UNCHANGED <<file, seekable, doc, worldHeader, world, property, i, j, seekLog>>

ReadObjectType ==
    /\ pc = "objectType"
    /\ LET r == readLithSTRING(pos)
       IN  /\ worldObject' = [worldObject EXCEPT !.ObjectType = r.destination]
           /\ pos' = r.pos
           /\ readErr' = Discard(r.failed)
    /\ pc' = "propertiesLen"
    /\ UNCHANGED <<file, seekable, doc, worldHeader, world, property, i, j, seekLog>>

ReadPropertiesLen ==
    /\ pc = "propertiesLen"
    /\ worldObject' = [worldObject EXCEPT !.PropertiesLen = ReadUint(pos, 4, @)]
    /\ pos' = Advance(pos, 4)
    /\ readErr' = Discard(ReadFails(pos, 4))
    /\ j' = 0
    /\ pc' = IF LoopContinues(0, worldObject'.PropertiesLen) THEN "propName"
             ELSE "appendObject"
    /\ UNCHANGED <<file, seekable, doc, worldHeader, world, property, i, seekLog>>

\* the variable declared outside the loop: it keeps the last iteration's fields
StaleProperty(prev) == prev

\* `var property PROPERTY` in the loop body: a new zero value each iteration,
\* whatever the variable held in the iteration before
NewProperty(prev) == ZeroPROPERTY

\* var property PROPERTY; readLithSTRING(worldFile, &property.Name)
ReadPropertyName ==
    /\ pc = "propName"
    /\ LET r == readLithSTRING(pos)
       IN  /\ property' = [NewProperty(property) EXCEPT !.Name = r.destination]
           /\ pos' = r.pos
           /\ readErr' = Discard(r.failed)
    /\ pc' = "propHead"
    /\ UNCHANGED <<file, seekable, doc, worldHeader, world, worldObject, i, j, seekLog>>

\* DataTypeFlag (u8), PropertyFlags (u32), DataSize (u16)
ReadPropertyHead ==
    /\ pc = "propHead"
    /\ LET p1 == Advance(pos, 1)
           p2 == Advance(p1, 4)
       IN  /\ property' = [property EXCEPT !.DataTypeFlag = ReadUint(pos, 1, @),
                                           !.PropertyFlags = ReadUint(p1, 4, @),
                                           !.DataSize = ReadUint(p2, 2, @)]
           /\ pos' = Advance(p2, 2)
           /\ readErr' = Discard(ReadFails(pos, 1) \/ ReadFails(p1, 4) \/ ReadFails(p2, 2))
    /\ pc' = "payload"
    /\ UNCHANGED <<file, seekable, doc, worldHeader, world, worldObject, i, j, seekLog>>

\* the type tags `switch property.DataTypeFlag` has a case for
KnownTags == {0, 1, 2, 3, 5, 6, 7}

\* size-driven consumption: the declared size as the width of the payload
PayloadLenDeclared(prop) == prop.DataSize

\* the bytes binary.Read asks for, by the type of the payload field of prop's tag
PayloadLen(prop) ==
    CASE prop.DataTypeFlag = 1 -> 12
      [] prop.DataTypeFlag = 2 -> 12
      [] prop.DataTypeFlag = 3 -> 4
      [] prop.DataTypeFlag = 5 -> 1
      [] prop.DataTypeFlag = 6 -> 4
      [] prop.DataTypeFlag = 7 -> 16
      [] OTHER -> 0

\* switch property.DataTypeFlag { ... }: prop with its payload read at offset p
DecodePayload(prop, p) ==
    LET n == PayloadLen(prop)
        ok == Avail(p, n)
        F(k) == LittleEndian(p + 4 * k, 4)
        t == prop.DataTypeFlag
    IN  CASE t = 0 -> [prop EXCEPT !.DataString = readLithSTRING(p).destination]
          [] t = 1 -> [prop EXCEPT !.DataVEC3 =
                          IF ok THEN [X |-> F(0), Y |-> F(1), Z |-> F(2)] ELSE @]
          [] t = 2 -> [prop EXCEPT !.DataCOLOR =
                          IF ok THEN [R |-> F(0), G |-> F(1), B |-> F(2)] ELSE @]
          [] t = 3 -> [prop EXCEPT !.DataFloat = IF ok THEN F(0) ELSE @]
          [] t = 5 -> [prop EXCEPT !.DataBool = IF ok THEN ByteAt(p) # 0 ELSE @]
          [] t = 6 -> [prop EXCEPT !.DataUint32 = IF ok THEN F(0) ELSE @]
          [] t = 7 -> [prop EXCEPT !.DataQuaternion =
                          IF ok THEN [X |-> F(0), Y |-> F(1), Z |-> F(2), W |-> F(3)]
                          ELSE @]
          [] OTHER -> prop

ReadPayload ==
    /\ pc = "payload"
    /\ property' = DecodePayload(property, pos)
    /\ IF property.DataTypeFlag = 0
       THEN /\ pos' = readLithSTRING(pos).pos
            /\ readErr' = Discard(readLithSTRING(pos).failed)
       ELSE /\ pos' = Advance(pos, PayloadLen(property))
            /\ readErr' = Discard(ReadFails(pos, PayloadLen(property)))
    /\ pc' = "appendProperty"
    /\ UNCHANGED <<file, seekable, doc, worldHeader, world, worldObject, i, j, seekLog>>

\* worldObject.Properties = append(worldObject.Properties, property)
AppendProperty ==
    /\ pc = "appendProperty"
    /\ worldObject' = [worldObject EXCEPT !.Properties = Append(@, property)]
    /\ j' = j + 1
    /\ pc' = IF LoopContinues(j + 1, worldObject.PropertiesLen) THEN "propName"
             ELSE "appendObject"
    /\ UNCHANGED <<file, seekable, doc, pos, worldHeader, world, property, i, seekLog,
                   readErr>>

\* world.WorldObjects = append(world.WorldObjects, worldObject)
AppendObject ==
    /\ pc = "appendObject"
    /\ world' = [world EXCEPT !.WorldObjects = Append(@, worldObject)]
    /\ i' = i + 1
    /\ pc' = IF LoopContinues(i + 1, world.WorldObjectsLen) THEN "objectSize"
             ELSE "seekBlind"
    /\ UNCHANGED <<file, seekable, doc, pos, worldHeader, worldObject, property, j, seekLog,
                   readErr>>

SeekBlindObjects == Seek("seekBlind", 2, "blindSize")

RECURSIVE BigEndian(_, _)
BigEndian(p, n) == IF n = 0 THEN 0 ELSE ByteAt(p + n - 1) + 256 * BigEndian(p, n - 1)

\* the prefix read with binary.BigEndian
ReadPrefixBigEndian(old) == IF Avail(pos, 4) THEN BigEndian(pos, 4) ELSE old

\* binary.Read of the u32 prefix of a section into a field of world holding old
ReadPrefix(old) == ReadUint(pos, 4, old)

ReadBlindObjectDataSize ==
    /\ pc = "blindSize"
    /\ world' = [world EXCEPT !.BlindObjectDataSize = ReadPrefix(@)]
    /\ pos' = Advance(pos, 4)
    /\ readErr' = Discard(ReadFails(pos, 4))
    /\ pc' = "seekLightgrid"
    /\ UNCHANGED <<file, seekable, doc, worldHeader, worldObject, property, i, j, seekLog>>

SeekLightgrid == Seek("seekLightgrid", 3, "seekCollision")

SeekCollision == Seek("seekCollision", 4, "physicsLen")

ReadPhysicsDataLen ==
    /\ pc = "physicsLen"
    /\ world' = [world EXCEPT !.PhysicsDataLen = ReadPrefix(@)]
    /\ pos' = Advance(pos, 4)
    /\ readErr' = Discard(ReadFails(pos, 4))
    /\ pc' = "seekParticle"
    /\ UNCHANGED <<file, seekable, doc, worldHeader, worldObject, property, i, j, seekLog>>

SeekParticleBlocker == Seek("seekParticle", 5, "particleLen")

ReadParticleBlockerDataLen ==
    /\ pc = "particleLen"
    /\ world' = [world EXCEPT !.ParticleBlockerDataLen = ReadPrefix(@)]
    /\ pos' = Advance(pos, 4)
    /\ readErr' = Discard(ReadFails(pos, 4))
    /\ pc' = "seekRender"
    /\ UNCHANGED <<file, seekable, doc, worldHeader, worldObject, property, i, j, seekLog>>

\* the last seek; main() returns after it
SeekRenderData == Seek("seekRender", 6, "done")

Next ==
    \/ ReadHeader
    \/ SeekObjects
    \/ ReadWorldObjectsLen
    \/ ReadObjectSize
    \/ ReadObjectType
    \/ ReadPropertiesLen
    \/ ReadPropertyName
    \/ ReadPropertyHead
    \/ ReadPayload
    \/ AppendProperty
    \/ AppendObject
    \/ SeekBlindObjects
    \/ ReadBlindObjectDataSize
    \/ SeekLightgrid
    \/ SeekCollision
    \/ ReadPhysicsDataLen
    \/ SeekParticleBlocker
    \/ ReadParticleBlockerDataLen
    \/ SeekRenderData

Spec == Init /\ [][Next]_vars

(***************************************************************************)
(* Properties.                                                             *)
(***************************************************************************)
\* positions of main() inside the world-objects section
ObjectPcs ==
    {"objectsLen", "objectSize", "objectType", "propertiesLen", "propName", "propHead",
     "payload", "appendProperty", "appendObject"}

\* positions of main() inside the decoding of one Property
PropertyPcs == {"propName", "propHead", "payload"}

\* positions of main() after the world-objects section
AfterObjects ==
    {"seekBlind", "blindSize", "seekLightgrid", "seekCollision", "physicsLen",
     "seekParticle", "particleLen", "seekRender", "done"}

\* the bytes of the file from offset p up to, not including, offset q
Bytes(p, q) == SubSeq(file, p + 1, q)

\* every Property decoded so far: the appended ones and the one about to be appended
DecodedProperties ==
    UNION {{o.Properties[b] : b \in DOMAIN o.Properties} :
              o \in {world.WorldObjects[a] : a \in DOMAIN world.WorldObjects}
                       \cup {worldObject}}
        \cup (IF pc = "appendProperty" THEN {property} ELSE {})

\* C1: after the world-objects section is decoded the number of WorldObjects is
\* the count read, each WorldObject holds exactly PropertiesLen Properties, and,
\* when every read of the header and of the section succeeded, the count is the
\* u32 stored at objectDataPos and the objects and their properties are the ones
\* the file was written from, in file order.
C1_ObjectCounts ==
    pc \in AfterObjects
        => /\ Len(world.WorldObjects) = world.WorldObjectsLen
           /\ \A a \in DOMAIN world.WorldObjects :
                 Len(world.WorldObjects[a].Properties) = world.WorldObjects[a].PropertiesLen
           /\ readErr \cap (ObjectPcs \cup {"header"}) = {}
                => /\ U32Bytes(Len(world.WorldObjects))
                        = Bytes(worldHeader.ObjectDataPos, worldHeader.ObjectDataPos + 4)
                   /\ world.WorldObjects = doc

C1_Witness ==
    /\ pc = "seekBlind"
    /\ readErr = {}
    /\ Len(world.WorldObjects) = 2
    /\ Len(world.WorldObjects[1].Properties) = 2
    /\ world.WorldObjects[1] # world.WorldObjects[2]
    /\ world.WorldObjects[1].Properties[1] # world.WorldObjects[1].Properties[2]

\* C2: decoding a Property whose type tag is none of 0,1,2,3,5,6,7 fails: no such
\* Property is ever kept, and the decode does not go on to the next Property.
C2_UnknownTagFails == \A p \in DecodedProperties : p.DataTypeFlag \in KnownTags

\* C3: a file cut off inside a Property makes the decode fail: once a read of a
\* Property's name, tag, flags, size or payload came up short, main() has stopped
\* with an error.
C3_TruncatedPropertyFails ==
    ("propName" \notin readErr /\ readErr \cap PropertyPcs # {}) => pc = "exit"

\* a header offset lies past the end of the file
OffsetBeyondFile ==
    \E off \in {worldHeader.ObjectDataPos, worldHeader.BlindObjectDataPos,
                worldHeader.LightgridPos, worldHeader.CollisionDataPos,
                worldHeader.ParticleBlockerDataPos, worldHeader.RenderDataPos} :
        off > FileLen

\* C4: when one of the six header offsets exceeds the file length the decode fails
\* before any section's content is read: main() never stands past its first seek.
C4_InvalidOffsetFails == OffsetBeyondFile => pc \in {"header", "seekObjects", "exit"}

\* C5: the decode is all-or-nothing: a run in which a read failed never reaches
\* the successful end of main().
C5_AllOrNothing == pc = "done" => readErr = {}

\* the six header offsets in the order of their sections
SixOffsets ==
    <<worldHeader.ObjectDataPos, worldHeader.BlindObjectDataPos, worldHeader.LightgridPos,
      worldHeader.CollisionDataPos, worldHeader.ParticleBlockerDataPos,
      worldHeader.RenderDataPos>>

\* the seeks main() has made when it stands at position at
SeeksBefore(at) ==
    CASE at \in {"header", "seekObjects"} -> 0
      [] at \in ObjectPcs \cup {"seekBlind"} -> 1
      [] at \in {"blindSize", "seekLightgrid"} -> 2
      [] at = "seekCollision" -> 3
      [] at \in {"physicsLen", "seekParticle"} -> 4
      [] at \in {"particleLen", "seekRender"} -> 5
      [] at = "done" -> 6

\* C6: the seeks made are the six header offsets objectDataPos, blindObjectDataPos,
\* lightgridPos, collisionDataPos, particleBlockerDataPos, renderDataPos in that
\* order, all six at the end of main(); only the dispatcher's six seek statements
\* add one, so the number made is fixed by the position of main() and the string,
\* property and object decoders make none. (A seek that fails ends the run there.)
C6_SixSeeksInOrder ==
    /\ Len(seekLog) <= 6
    /\ seekLog = SubSeq(SixOffsets, 1, Len(seekLog))
    /\ pc # "exit" => Len(seekLog) = SeeksBefore(pc)
    /\ pc = "done" => seekLog = SixOffsets

C6_Witness ==
    /\ pc = "done"
    /\ worldHeader.ObjectDataPos > worldHeader.BlindObjectDataPos
    /\ worldHeader.LightgridPos # worldHeader.CollisionDataPos
    /\ Len(world.WorldObjects) = 2
    /\ \E p \in DecodedProperties : p.DataTypeFlag = 0 /\ p.DataString # <<>>

\* C7: the seeks to lightgridPos and renderDataPos are made although nothing is
\* read there, and the u32 stored at blindObjectDataPos, collisionDataPos and
\* particleBlockerDataPos is read right after the seek and kept:
\* BlindObjectDataSize, PhysicsDataLen and ParticleBlockerDataLen are the
\* little-endian u32 at their offset (when the file holds its four bytes).
C7_PrefixRecorded ==
    LET Holds(off) == off + 4 <= FileLen
        After(at) == SeeksBefore(pc) > SeeksBefore(at)
                        \/ (SeeksBefore(pc) = SeeksBefore(at) /\ pc # at)
    IN  /\ (pc \notin {"header", "exit"} /\ After("blindSize")
                /\ Holds(worldHeader.BlindObjectDataPos))
              => U32Bytes(world.BlindObjectDataSize)
                    = Bytes(worldHeader.BlindObjectDataPos,
                            worldHeader.BlindObjectDataPos + 4)
        /\ (pc \notin {"header", "exit"} /\ After("physicsLen")
                /\ Holds(worldHeader.CollisionDataPos))
              => U32Bytes(world.PhysicsDataLen)
                    = Bytes(worldHeader.CollisionDataPos, worldHeader.CollisionDataPos + 4)
        /\ (pc \notin {"header", "exit"} /\ After("particleLen")
                /\ Holds(worldHeader.ParticleBlockerDataPos))
              => U32Bytes(world.ParticleBlockerDataLen)
                    = Bytes(worldHeader.ParticleBlockerDataPos,
                            worldHeader.ParticleBlockerDataPos + 4)
        /\ (pc = "seekLightgrid" /\ Holds(worldHeader.BlindObjectDataPos))
              => pos = worldHeader.BlindObjectDataPos + 4
        /\ (pc = "seekParticle" /\ Holds(worldHeader.CollisionDataPos))
              => pos = worldHeader.CollisionDataPos + 4
        /\ (pc = "seekRender" /\ Holds(worldHeader.ParticleBlockerDataPos))
              => pos = worldHeader.ParticleBlockerDataPos + 4
        /\ pc = "seekCollision" => (Len(seekLog) = 3 /\ pos = worldHeader.LightgridPos)
        /\ pc = "done" => (Len(seekLog) = 6 /\ pos = worldHeader.RenderDataPos)

C7_Witness ==
    /\ pc = "done"
    /\ readErr = {}
    /\ world.BlindObjectDataSize = 66049
    /\ world.PhysicsDataLen = 2
    /\ world.ParticleBlockerDataLen = 3
    /\ seekLog[3] = worldHeader.LightgridPos
    /\ seekLog[6] = worldHeader.RenderDataPos

\* the bytes the payload of a Property of type tag t consumes; len is the length
\* of its string when t = 0
TagWidth(t, len) ==
    CASE t = 0 -> 2 + len
      [] t \in {1, 2} -> 12
      [] t = 3 -> 4
      [] t = 5 -> 1
      [] t = 6 -> 4
      [] t = 7 -> 16

InactiveZero(p) ==
    /\ p.DataTypeFlag # 0 => p.DataString = <<>>
    /\ p.DataTypeFlag # 1 => p.DataVEC3 = ZeroVEC3
    /\ p.DataTypeFlag # 2 => p.DataCOLOR = ZeroCOLOR
    /\ p.DataTypeFlag # 3 => p.DataFloat = 0
    /\ p.DataTypeFlag # 5 => p.DataBool = FALSE
    /\ p.DataTypeFlag # 6 => p.DataUint32 = 0
    /\ p.DataTypeFlag # 7 => p.DataQuaternion = ZeroQUATERNION
    /\ p.Data = <<>>

AtString ==
    \/ pc \in {"objectType", "propName"}
    \/ pc = "payload" /\ property.DataTypeFlag = 0

\* the string the call of readLithSTRING of this step has stored
StringRead ==
    CASE pc = "objectType" -> worldObject'.ObjectType
      [] pc = "propName" -> property'.Name
      [] pc = "payload" -> property'.DataString

\* C10: a world-object count of 0 decodes to no objects and leaves the cursor four
\* bytes after objectDataPos when the next section is sought, and a string whose u16
\* length is 0 decodes to the empty string and moves the cursor by its two bytes.
C10_ZeroLength ==
    /\ []((pc = "seekBlind" /\ readErr \cap {"header", "objectsLen"} = {}
              /\ Bytes(worldHeader.ObjectDataPos, worldHeader.ObjectDataPos + 4)
                    = <<0, 0, 0, 0>>)
            => (world.WorldObjects = <<>> /\ pos = worldHeader.ObjectDataPos + 4))
    /\ [][(AtString /\ pos + 2 <= FileLen /\ Bytes(pos, pos + 2) = <<0, 0>>)
            => (StringRead = <<>> /\ pos' = pos + 2)]_vars

C10_Witness ==
    /\ pc = "done"
    /\ readErr = {}
    /\ Len(world.WorldObjects) = 2
    /\ world.WorldObjects[1].ObjectType = <<>>
    /\ world.WorldObjects[2].ObjectType # <<>>
    /\ \E p \in DecodedProperties : p.DataTypeFlag = 0 /\ p.DataString = <<>>

\* a file whose world-object count is 0, decoded
C10_WitnessEmpty ==
    /\ pc = "done"
    /\ readErr = {}
    /\ doc = <<>>
    /\ world.WorldObjects = <<>>

\* the header fields in the order main() is to read them
HeaderSequence ==
    <<worldHeader.Version, worldHeader.ObjectDataPos, worldHeader.BlindObjectDataPos,
      worldHeader.LightgridPos, worldHeader.CollisionDataPos,
      worldHeader.ParticleBlockerDataPos, worldHeader.RenderDataPos,
      worldHeader.PackerType, worldHeader.PackerVersion>> \o worldHeader.Future

\* the header has been decoded from a file that holds all of it
HeaderDecoded == pc # "header" /\ "header" \notin readErr

\* C11 as stated: the header occupies 36 bytes, the cursor stands at byte 36 when
\* header decoding ends.
C11_HeaderIs36Bytes == (pc = "seekObjects" /\ HeaderDecoded) => pos = 36

\* C11, amended: the header is version, objectDataPos, blindObjectDataPos,
\* lightgridPos, collisionDataPos, particleBlockerDataPos, renderDataPos,
\* packerType, packerVersion, future[0..5], fifteen little-endian u32 values read in
\* that order from offset 0; it occupies 60 bytes and the cursor stands at byte 60
\* when header decoding ends.
C11_HeaderLayout ==
    HeaderDecoded
        => /\ Len(HeaderSequence) = 15
           /\ \A k \in 1..15 : U32Bytes(HeaderSequence[k]) = Bytes(4 * (k - 1), 4 * k)
           /\ pc = "seekObjects" => pos = 60

C11_Witness ==
    /\ pc = "seekObjects"
    /\ readErr = {}
    /\ pos = 60
    /\ worldHeader.Version = 85
    /\ worldHeader.ObjectDataPos = 60
    /\ worldHeader.PackerType = 1
    /\ worldHeader.PackerVersion = 2
    /\ worldHeader.Future = <<11, 12, 13, 14, 15, 16>>

====
